---- MODULE Spec2Model ----
(***************************************************************************)
(* The carousels of src/js/main.js: the profile image carousel with its   *)
(* auto-rotation timer, and the conference, workshop and article           *)
(* carousels, as one state machine driven by browser events.               *)
(***************************************************************************)
EXTENDS Integers, FiniteSets, Sequences, TLC

\* ---- bounds of the model ------------------------------------------------
MaxItems == 3          \* longest item list in the configuration data
MaxPopulated == 1      \* content groups of the configuration that have data
MaxTimerId == 3        \* handles the browser hands out before the run is cut
TicksPerInterval == 2  \* clock ticks that make up one rotation interval
IndexMargin == 1       \* how far outside 0..n-1 a direct goToSlide call goes
MaxHideTimeouts == 4   \* auto-hide timeouts of the status message pending at once
MaxAnimated == 3       \* elements of class animate-on-scroll on the page
MaxSections == 4       \* sections of the page, each with its navigation link
MaxScroll == 5         \* scroll positions below the top of the page
MaxScrollEvents == 3   \* scroll events delivered between two animation frames

\* ---- names ----------------------------------------------------------------
Profile == "profile"
Gallery == {"conference", "workshop", "article"}
Carousels == {Profile} \cup Gallery

\* let autoRotateInterval = null; a handle of setInterval is a positive integer
Null == 0

\* class of a dot: dotElement.className / indicatorElement.className
ActiveDot == "bg-primary-500"
InactiveDot(c) == IF c = Profile THEN "bg-white/70" ELSE "bg-neutral-300"

VARIABLES
    portfolioData,       \* the loaded configuration: lengths of the item lists
    anchors,             \* per carousel: the page has its required containers
    populated,           \* populateContent has run
    status,              \* per carousel: "pending", "built", "skipped", "error",
                         \* "missing" (a container is not on the page)
    images,              \* per carousel: length of the list its closure holds
    currentIndex,        \* per carousel: let currentIndex
    carouselItems,       \* per carousel: style of each slide element
    backdropItems,       \* profile: style of each backdrop element
    dots,                \* per carousel: className of each dot / indicator
    navDisplay,          \* per carousel: style.display of prev, next, dots
    autoRotateInterval,  \* profile: let autoRotateInterval
    timers,              \* the browser's active intervals: handle -> elapsed ticks
    nextTimerId,         \* the handle the next setInterval returns
    errorLog,            \* per carousel: console.error calls of its code
    firedThisTick,       \* interval callbacks run since the clock last moved
    sinceSlide,          \* clock ticks since the profile carousel was built or
                         \* its goToSlide last ran, counted up to one interval
    hovering,            \* the pointer is inside #profile-carousel
    staleClosure,        \* profile: currentIndex and autoRotateInterval of the
                         \* closure an earlier initializeProfileCarousel call left
    formFields,          \* contact form: value of name, email, subject, message
    fieldErrors,         \* contact form: the field's error element is shown
    honeypot,            \* contact form: value of the hidden input "website"
    statusElement,       \* contact form: #form-status
    submitDisabled,      \* contact form: submitButton.disabled
    inFlight,            \* the promise of simulateFormSubmission is pending
    hideTimeouts,        \* pending auto-hide timeouts of showFormMessage
    animationObserver,   \* let animationObserver: "null", "observing", "disconnected"
    observed,            \* the elements animationObserver observes
    isVisible,           \* per .animate-on-scroll element: it has class is-visible
    safetyTimeouts,      \* the elements whose safety timeout is pending
    animationsSetUp,     \* initializeScrollAnimations has run
    unloaded,            \* the beforeunload event has been delivered
    menuIcons,           \* #mobile-menu-button holds the two svg icons
    ariaExpanded,        \* aria-expanded of #mobile-menu-button
    menuHidden,          \* #mobile-menu has class hidden
    hamburgerHidden,     \* the first svg of the button has class hidden
    closeHidden,         \* the last svg of the button has class hidden
    activeLink,          \* the section whose links are highlighted, 0: none
    parallaxListening,   \* requestTick is registered as scroll listener
    ticking,             \* let ticking of initializeParallaxEffects
    pendingFrames,       \* updateParallax callbacks queued for the next frame
    scrollTop,           \* window.pageYOffset
    parallaxTransform,   \* yPos of the translateY the parallax element has
    scrollsSinceFrame,   \* scroll events delivered since the last frame
    lastOp               \* the event delivered last, and the index it found

vars == <<portfolioData, anchors, populated, status, images, currentIndex,
          carouselItems, backdropItems, dots, navDisplay, autoRotateInterval,
          timers, nextTimerId, errorLog, firedThisTick, sinceSlide, hovering,
          staleClosure, formFields, fieldErrors, honeypot, statusElement, submitDisabled,
          inFlight, hideTimeouts, animationObserver, observed, isVisible,
          safetyTimeouts, animationsSetUp, unloaded, menuIcons, ariaExpanded,
          menuHidden, hamburgerHidden, closeHidden, activeLink,
          parallaxListening, ticking, pendingFrames, scrollTop,
          parallaxTransform, scrollsSinceFrame, lastOp>>

pageVars == <<portfolioData, anchors>>

domVars == <<carouselItems, backdropItems, dots, navDisplay>>
timerVars == <<autoRotateInterval, timers, nextTimerId>>
formVars == <<formFields, fieldErrors, honeypot, statusElement, submitDisabled,
              inFlight, hideTimeouts>>
animVars == <<animationObserver, observed, isVisible, safetyTimeouts,
              animationsSetUp, unloaded>>
carouselVars == <<pageVars, populated, status, images, currentIndex, domVars,
                  timerVars, errorLog, firedThisTick, sinceSlide, hovering,
                  staleClosure>>

menuVars == <<menuIcons, ariaExpanded, menuHidden, hamburgerHidden, closeHidden,
              activeLink>>
parallaxVars == <<parallaxListening, ticking, pendingFrames, scrollTop,
                  parallaxTransform, scrollsSinceFrame>>

\* what the code of each part of the page leaves alone
outsideCarousel == <<formVars, animVars, menuVars, parallaxVars>>
outsideForm == <<carouselVars, animVars, menuVars, parallaxVars>>
outsideAnimations == <<carouselVars, formVars, menuVars, parallaxVars>>
outsideMenu == <<carouselVars, formVars, animVars, parallaxVars>>
outsideParallax == <<carouselVars, formVars, animVars, menuVars>>

\* ---- configuration data -----------------------------------------------------
\* personal.profileImages, personal.profileImage, conferences, workshops,
\* articles.<type>: only the lengths matter to the carousels
HasData(d, c) ==
    IF c = Profile THEN d.items[c] > 0 \/ d.profileImage ELSE d.items[c] > 0

Configs ==
    { d \in [items : [Carousels -> 0..MaxItems], profileImage : BOOLEAN] :
        Cardinality({c \in Carousels : HasData(d, c)}) <= MaxPopulated }

\* ---- the browser's interval table ---------------------------------------------
\* tm is the record [handle, table, next] of autoRotateInterval, timers, nextTimerId
TimerState == [handle |-> autoRotateInterval, table |-> timers, next |-> nextTimerId]

setInterval(tm) ==
    [handle |-> tm.next,
     table  |-> [h \in DOMAIN tm.table \cup {tm.next} |->
                    IF h = tm.next THEN 0 ELSE tm.table[h]],
     next   |-> tm.next + 1]

clearInterval(tm, h) ==
    [tm EXCEPT !.table = [x \in DOMAIN tm.table \ {h} |-> tm.table[x]]]

\* function startAutoRotate(): only set the interval if it does not exist
startAutoRotateDouble(tm) == setInterval(tm)
startAutoRotateNever(tm) == tm
startAutoRotate(tm) ==
    IF tm.handle = Null THEN setInterval(tm) ELSE tm

\* function resetAutoRotate()
resetAutoRotateNoClear(tm) ==
    startAutoRotate(IF tm.handle # Null THEN [tm EXCEPT !.handle = Null] ELSE tm)
resetAutoRotateKeep(tm) == startAutoRotate(tm)
resetAutoRotate(tm) ==
    startAutoRotate(IF tm.handle # Null
                    THEN [clearInterval(tm, tm.handle) EXCEPT !.handle = Null]
                    ELSE tm)

\* the mouseenter listener of #profile-carousel
onMouseEnterLeak(tm) ==
    IF tm.handle # Null THEN [tm EXCEPT !.handle = Null] ELSE tm
onMouseEnter(tm) ==
    IF tm.handle # Null
    THEN [clearInterval(tm, tm.handle) EXCEPT !.handle = Null]
    ELSE tm

\* the mouseleave listener of #profile-carousel
onMouseLeaveAlways(tm) == setInterval(tm)
onMouseLeave(tm) == startAutoRotate(tm)

\* the handles stay within the bound after a step that leaves the table at tm
WithinHandles(tm) == tm.next <= MaxTimerId + 1

\* ---- styles of the elements ---------------------------------------------------
ShownImage == [opacity |-> "1", zIndex |-> "10"]
ShownBackdrop == [opacity |-> "1", zIndex |-> "9"]
HiddenImage == [opacity |-> "0", zIndex |-> "0"]
ShownItem == [display |-> "block"]
HiddenItem == [display |-> "none"]
NoElements == <<>>
PageNav == [prev |-> "", next |-> "", dots |-> ""]
HiddenNav == [prev |-> "none", next |-> "none", dots |-> "none"]

\* ---- index arithmetic of the handlers -----------------------------------------
\* prevButton.onclick: currentIndex - 1 < 0 ? length - 1 : currentIndex - 1
PrevIndexNoWrap(cur, n) == cur - 1
PrevIndex(cur, n) == IF cur - 1 < 0 THEN n - 1 ELSE cur - 1

\* nextButton.onclick and the interval callback:
\* currentIndex + 1 >= length ? 0 : currentIndex + 1
NextIndexNoWrap(cur, n) == cur + 1
NextIndex(cur, n) == IF cur + 1 >= n THEN 0 ELSE cur + 1

\* ---- construction -------------------------------------------------------------
\* initializeProfileCarousel: the images array after the legacy fallback
FinalImages(d) ==
    IF d.items[Profile] = 0
    THEN (IF d.profileImage THEN 1 ELSE 0)
    ELSE d.items[Profile]

\* initializeProfileCarousel(images), as the values it leaves behind
initializeProfileCarouselSilent(d, tm) ==
    LET n == FinalImages(d) IN
    IF n = 0
    THEN [status |-> "error", images |-> 0, items |-> NoElements,
          backdrops |-> NoElements, dots |-> NoElements, nav |-> PageNav,
          tm |-> tm, errors |-> 0]
    ELSE IF ~anchors[Profile]
    THEN [status |-> "missing", images |-> 0, items |-> NoElements,
          backdrops |-> NoElements, dots |-> NoElements, nav |-> PageNav,
          tm |-> tm, errors |-> 1]
    ELSE [status |-> "built", images |-> n,
          items |-> [i \in 0..(n - 1) |-> IF i = 0 THEN ShownImage ELSE HiddenImage],
          backdrops |-> [i \in 0..(n - 1) |->
                            IF i = 1 THEN ShownBackdrop ELSE HiddenImage],
          dots |-> [i \in 0..(n - 1) |->
                            IF i = 0 THEN ActiveDot ELSE InactiveDot(Profile)],
          nav |-> IF n <= 1 THEN HiddenNav ELSE PageNav,
          tm |-> IF n <= 1 THEN tm ELSE startAutoRotate(tm),
          errors |-> 0]

initializeProfileCarousel(d, tm) ==
    LET n == FinalImages(d) IN
    IF n = 0
    THEN [status |-> "error", images |-> 0, items |-> NoElements,
          backdrops |-> NoElements, dots |-> NoElements, nav |-> PageNav,
          tm |-> tm, errors |-> 1]
    ELSE IF ~anchors[Profile]
    THEN [status |-> "missing", images |-> 0, items |-> NoElements,
          backdrops |-> NoElements, dots |-> NoElements, nav |-> PageNav,
          tm |-> tm, errors |-> 1]
    ELSE [status |-> "built", images |-> n,
          items |-> [i \in 0..(n - 1) |-> IF i = 0 THEN ShownImage ELSE HiddenImage],
          backdrops |-> [i \in 0..(n - 1) |->
                            IF i = 1 THEN ShownBackdrop ELSE HiddenImage],
          dots |-> [i \in 0..(n - 1) |->
                            IF i = 0 THEN ActiveDot ELSE InactiveDot(Profile)],
          nav |-> IF n <= 1 THEN HiddenNav ELSE PageNav,
          tm |-> IF n <= 1 THEN tm ELSE startAutoRotate(tm),
          errors |-> 0]

\* populateConferencesSection / populateArticlesSection guard each initializer by
\* length > 0; initializeConferenceCarousel, initializeWorkshopCarousel and
\* initializeArticleCarousel return after console.error when a container is missing
\* and otherwise build the same elements
initializeGalleryCarouselNoCheck(c, n) ==
    IF n > 0
    THEN [status |-> "built", images |-> n,
          items |-> [i \in 0..(n - 1) |-> IF i = 0 THEN ShownItem ELSE HiddenItem],
          dots |-> [i \in 0..(n - 1) |->
                            IF i = 0 THEN ActiveDot ELSE InactiveDot(c)],
          nav |-> PageNav, errors |-> 0]
    ELSE [status |-> "skipped", images |-> 0, items |-> NoElements,
          dots |-> NoElements, nav |-> PageNav, errors |-> 0]

initializeGalleryCarousel(c, n) ==
    IF n > 0 /\ ~anchors[c]
    THEN [status |-> "missing", images |-> 0, items |-> NoElements,
          dots |-> NoElements, nav |-> PageNav, errors |-> 1]
    ELSE IF n > 0
    THEN [status |-> "built", images |-> n,
          items |-> [i \in 0..(n - 1) |-> IF i = 0 THEN ShownItem ELSE HiddenItem],
          dots |-> [i \in 0..(n - 1) |->
                            IF i = 0 THEN ActiveDot ELSE InactiveDot(c)],
          nav |-> PageNav, errors |-> 0]
    ELSE [status |-> "skipped", images |-> 0, items |-> NoElements,
          dots |-> NoElements, nav |-> PageNav, errors |-> 0]

\* the handlers a built carousel has registered
HasDotHandler(c, i) == status[c] = "built" /\ i \in 0..(images[c] - 1)
HasNavHandlers(c) == status[c] = "built" /\ (c = Profile => images[c] > 1)
HasHoverListeners == status[Profile] = "built" /\ images[Profile] > 1

\* the page before populateContent, with configuration d and containers a
\* ---- the contact form ---------------------------------------------------------
\* formFields: name, email, subject, message
Fields == {"name", "email", "subject", "message"}

\* validationRules; a missing minLength, maxLength or pattern is falsy, written 0
\* or FALSE
validationRules ==
    [name    |-> [required |-> TRUE, minLength |-> 2, maxLength |-> 50,
                  pattern |-> TRUE],
     email   |-> [required |-> TRUE, minLength |-> 0, maxLength |-> 0,
                  pattern |-> TRUE],
     subject |-> [required |-> TRUE, minLength |-> 5, maxLength |-> 100,
                  pattern |-> FALSE],
     message |-> [required |-> TRUE, minLength |-> 10, maxLength |-> 1000,
                  pattern |-> FALSE]]

\* a field value, by what validateField looks at: the length of value.trim() and
\* whether the field's pattern (if it has one) matches value.trim()
EmptyValue == [len |-> 0, wellFormed |-> FALSE]
BriefValue == [len |-> 1, wellFormed |-> FALSE]
FineValue == [len |-> 12, wellFormed |-> TRUE]
FieldValues == {EmptyValue, BriefValue, FineValue}

\* validateField(fieldName, value): TRUE when it collects no error
validateField(fieldName, value) ==
    LET rules == validationRules[fieldName]
        required == rules.required /\ value.len = 0
        tooShort == rules.minLength # 0 /\ value.len < rules.minLength
        tooLong  == rules.maxLength # 0 /\ value.len > rules.maxLength
        badForm  == rules.pattern /\ ~value.wellFormed
    IN  IF value.len = 0 /\ ~rules.required
        THEN TRUE
        ELSE ~(required \/ tooShort \/ tooLong \/ badForm)

\* validateAllFields(): every field passes validateField
validateAllFieldsAny(values) ==
    \E f \in Fields : validateField(f, values[f])
validateAllFields(values) ==
    \A f \in Fields : validateField(f, values[f])

\* setFormLoading(loading): submitButton.disabled
setFormLoadingStuck(loading) == TRUE
setFormLoading(loading) == loading

\* values of the hidden input "website"
HoneypotEmpty == ""
HoneypotFilled == "filled"

\* showFormMessage(message, type): the status element it leaves
ShownMessage(message, type) == [text |-> message, type |-> type, hidden |-> FALSE]
NoMessage == [text |-> "", type |-> "", hidden |-> TRUE]

\* the form after initializeForm and addHoneypotField have run
FormLoaded ==
    /\ formFields = [f \in Fields |-> EmptyValue]
    /\ fieldErrors = [f \in Fields |-> FALSE]
    /\ honeypot = HoneypotEmpty
    /\ statusElement = NoMessage
    /\ submitDisabled = FALSE
    /\ inFlight = FALSE
    /\ hideTimeouts = 0

\* ---- scroll animations --------------------------------------------------------
\* the elements of class animate-on-scroll on the page when the DOM is loaded
AnimatedElements == 1..MaxAnimated

\* the callback of an element's safety timeout: add is-visible unless it is there
safetyTimeoutCallbackIdle(visible, e) == visible
safetyTimeoutCallback(visible, e) ==
    IF ~visible[e] THEN [visible EXCEPT ![e] = TRUE] ELSE visible

\* fallbackAnimations(): every animated element gets is-visible
fallbackAnimations == [e \in AnimatedElements |-> TRUE]

\* the page before DOMContentLoaded
AnimationsLoaded ==
    /\ animationObserver = "null"
    /\ observed = {}
    /\ isVisible = [e \in AnimatedElements |-> FALSE]
    /\ safetyTimeouts = {}
    /\ animationsSetUp = FALSE
    /\ unloaded = FALSE

\* ---- mobile menu ---------------------------------------------------------------
\* the menu as the two click listeners read and write it
menuState ==
    [aria |-> ariaExpanded, hidden |-> menuHidden,
     hamburger |-> hamburgerHidden, close |-> closeHidden]

\* the click listener of #mobile-menu-button; setAttribute turns !isExpanded
\* into the string "true" or "false"
onMenuButtonClickKeepAria(m, icons) ==
    [aria |-> m.aria,
     hidden |-> ~m.hidden,
     hamburger |-> IF icons THEN ~m.hamburger ELSE m.hamburger,
     close |-> IF icons THEN ~m.close ELSE m.close]
onMenuButtonClick(m, icons) ==
    LET isExpanded == m.aria = "true" IN
    [aria |-> IF isExpanded THEN "false" ELSE "true",
     hidden |-> ~m.hidden,
     hamburger |-> IF icons THEN ~m.hamburger ELSE m.hamburger,
     close |-> IF icons THEN ~m.close ELSE m.close]

\* the click listener of a navigation link
onNavLinkClick(m, icons) ==
    IF ~m.hidden
    THEN [aria |-> "false",
          hidden |-> TRUE,
          hamburger |-> IF icons THEN FALSE ELSE m.hamburger,
          close |-> IF icons THEN TRUE ELSE m.close]
    ELSE m

Sections == 1..MaxSections

\* the page with a closed menu, after initializeNavigation has run; the button
\* carries aria-expanded="false" or no such attribute
MenuLoaded(icons, aria) ==
    /\ menuIcons = icons
    /\ ariaExpanded = aria
    /\ menuHidden = TRUE
    /\ hamburgerHidden = FALSE
    /\ closeHidden = TRUE
    /\ activeLink = 0

\* ---- parallax -------------------------------------------------------------------
\* window.pageYOffset, in steps of two pixels
ScrollPositions == {2 * k : k \in 0..MaxScroll}

\* requestTick(): schedule updateParallax unless one is scheduled
requestTickAlways(t, pending) == [ticking |-> TRUE, pending |-> pending + 1]
requestTick(t, pending) ==
    IF ~t
    THEN [ticking |-> TRUE, pending |-> pending + 1]
    ELSE [ticking |-> t, pending |-> pending]

\* yPos of updateParallax for an element without data-parallax value: speed 0.5
updateParallax(y) == -(y \div 2)

\* the page at the top, after initializeParallaxEffects has run
ParallaxLoaded(listening) ==
    /\ parallaxListening = listening
    /\ ticking = FALSE
    /\ pendingFrames = 0
    /\ scrollTop = 0
    /\ parallaxTransform = 0
    /\ scrollsSinceFrame = 0

\* no earlier initializeProfileCarousel call has left a closure behind
NoClosure == [currentIndex |-> 0, autoRotateInterval |-> Null, live |-> FALSE]

InitPage(d, a) ==
    /\ portfolioData = d
    /\ anchors = a
    /\ populated = FALSE
    /\ status = [c \in Carousels |-> "pending"]
    /\ images = [c \in Carousels |-> 0]
    /\ currentIndex = [c \in Carousels |-> 0]
    /\ carouselItems = [c \in Carousels |-> NoElements]
    /\ backdropItems = NoElements
    /\ dots = [c \in Carousels |-> NoElements]
    /\ navDisplay = [c \in Carousels |-> PageNav]
    /\ autoRotateInterval = Null
    /\ timers = <<>>
    /\ nextTimerId = 1
    /\ errorLog = [c \in Carousels |-> 0]
    /\ firedThisTick = 0
    /\ sinceSlide = 0
    /\ hovering = FALSE
    /\ staleClosure = NoClosure
    /\ FormLoaded
    /\ AnimationsLoaded
    /\ lastOp = [op |-> "load", c |-> "page", arg |-> 0, from |-> 0]

InitWith(d, a) ==
    /\ InitPage(d, a)
    /\ MenuLoaded(TRUE, "false")
    /\ ParallaxLoaded(FALSE)

\* every container is on the page
AllAnchors == [c \in Carousels |-> TRUE]

Init == \E d \in Configs : InitWith(d, AllAnchors)

\* a page without carousel data
NoData == [items |-> [c \in Carousels |-> 0], profileImage |-> FALSE]
InitAnimations == InitWith(NoData, AllAnchors)

\* pages that lack the containers of some carousels that have data: up to
\* MaxPopulated carousels lack theirs, and one other carousel may have data
LacksAnchors(a) == {c \in Carousels : ~a[c]}
Live(d, a) == {c \in Carousels : HasData(d, c) /\ a[c]}
PagesMissingAnchors ==
    { da \in [items : [Carousels -> 0..MaxItems], profileImage : BOOLEAN]
              \X [Carousels -> BOOLEAN] :
        /\ LacksAnchors(da[2]) # {}
        /\ Cardinality(LacksAnchors(da[2])) <= MaxPopulated
        /\ \A c \in LacksAnchors(da[2]) : HasData(da[1], c)
        /\ \A c1, c2 \in Live(da[1], da[2]) : c1 = c2 }

InitAnchors == \E da \in PagesMissingAnchors : InitWith(da[1], da[2])

\* populateContent: populateHeroSection, populateConferencesSection and
\* populateArticlesSection run one after the other in the same callback
populateContent ==
    /\ ~populated
    /\ LET p == initializeProfileCarousel(portfolioData, TimerState)
           g == [c \in Gallery |-> initializeGalleryCarousel(c, portfolioData.items[c])]
       IN /\ status' = [c \in Carousels |-> IF c = Profile THEN p.status ELSE g[c].status]
          /\ images' = [c \in Carousels |-> IF c = Profile THEN p.images ELSE g[c].images]
          /\ carouselItems' =
                [c \in Carousels |-> IF c = Profile THEN p.items ELSE g[c].items]
          /\ backdropItems' = p.backdrops
          /\ dots' = [c \in Carousels |-> IF c = Profile THEN p.dots ELSE g[c].dots]
          /\ navDisplay' = [c \in Carousels |-> IF c = Profile THEN p.nav ELSE g[c].nav]
          /\ errorLog' = [c \in Carousels |-> IF c = Profile THEN p.errors ELSE g[c].errors]
          /\ autoRotateInterval' = p.tm.handle
          /\ timers' = p.tm.table
          /\ nextTimerId' = p.tm.next
    /\ populated' = TRUE
    /\ currentIndex' = [c \in Carousels |-> 0]
    /\ lastOp' = [op |-> "populate", c |-> "page", arg |-> 0, from |-> 0]
    /\ sinceSlide' = 0
    /\ UNCHANGED <<pageVars, firedThisTick, hovering>>
    /\ UNCHANGED <<staleClosure, outsideCarousel>>

\* ---- goToSlide ----------------------------------------------------------------
\* const backdropIndex = index + 1 >= images.length ? 0 : index + 1
BackdropIndexSame(index, n) == index
BackdropIndex(index, n) == IF index + 1 >= n THEN 0 ELSE index + 1

\* initializeProfileCarousel.goToSlide(index); tm is the interval table it finds
profileGoToSlideKeepDots(index, tm) ==
    LET n == images[Profile]
        backdropIndex == BackdropIndex(index, n)
        after == resetAutoRotate(tm)
        found == index \in DOMAIN carouselItems[Profile]
    IN  /\ WithinHandles(after)
        /\ autoRotateInterval' = after.handle
        /\ timers' = after.table
        /\ nextTimerId' = after.next
        /\ carouselItems' = [carouselItems EXCEPT ![Profile] =
              [i \in DOMAIN @ |-> IF found /\ i = index THEN ShownImage ELSE HiddenImage]]
        /\ backdropItems' = [i \in DOMAIN backdropItems |->
              IF found /\ i = backdropIndex THEN ShownBackdrop ELSE HiddenImage]
        /\ errorLog' = IF found THEN errorLog ELSE [errorLog EXCEPT ![Profile] = @ + 1]
        /\ currentIndex' = [currentIndex EXCEPT ![Profile] = index]
        /\ UNCHANGED dots

profileGoToSlide(index, tm) ==
    LET n == images[Profile]
        backdropIndex == BackdropIndex(index, n)
        after == resetAutoRotate(tm)
        found == index \in DOMAIN carouselItems[Profile]
    IN  /\ WithinHandles(after)
        /\ autoRotateInterval' = after.handle
        /\ timers' = after.table
        /\ nextTimerId' = after.next
        /\ carouselItems' = [carouselItems EXCEPT ![Profile] =
              [i \in DOMAIN @ |-> IF found /\ i = index THEN ShownImage ELSE HiddenImage]]
        /\ backdropItems' = [i \in DOMAIN backdropItems |->
              IF found /\ i = backdropIndex THEN ShownBackdrop ELSE HiddenImage]
        /\ errorLog' = IF found THEN errorLog ELSE [errorLog EXCEPT ![Profile] = @ + 1]
        /\ dots' = [dots EXCEPT ![Profile] =
              [i \in DOMAIN @ |-> IF i = index THEN ActiveDot ELSE InactiveDot(Profile)]]
        /\ currentIndex' = [currentIndex EXCEPT ![Profile] = index]

\* goToSlide(index) of initializeConferenceCarousel, initializeWorkshopCarousel
\* and initializeArticleCarousel
galleryGoToSlideNoHide(c, index) ==
    /\ carouselItems' = [carouselItems EXCEPT ![c] =
          [i \in DOMAIN @ |-> IF i = index THEN ShownItem ELSE @[i]]]
    /\ dots' = [dots EXCEPT ![c] =
          [i \in DOMAIN @ |-> IF i = index THEN ActiveDot ELSE InactiveDot(c)]]
    /\ currentIndex' = [currentIndex EXCEPT ![c] = index]
    /\ UNCHANGED <<backdropItems, errorLog, timerVars>>

galleryGoToSlideShared(c, index) ==
    /\ carouselItems' = [carouselItems EXCEPT ![c] =
          [i \in DOMAIN @ |-> IF i = index THEN ShownItem ELSE HiddenItem]]
    /\ dots' = [dots EXCEPT ![c] =
          [i \in DOMAIN @ |-> IF i = index THEN ActiveDot ELSE InactiveDot(c)]]
    /\ currentIndex' = [x \in Carousels |-> index]
    /\ UNCHANGED <<backdropItems, errorLog, timerVars>>

galleryGoToSlideFromIndex(c, index) ==
    /\ carouselItems' = [carouselItems EXCEPT ![c] =
          [i \in DOMAIN @ |-> IF i >= index THEN ShownItem ELSE HiddenItem]]
    /\ dots' = [dots EXCEPT ![c] =
          [i \in DOMAIN @ |-> IF i = index THEN ActiveDot ELSE InactiveDot(c)]]
    /\ currentIndex' = [currentIndex EXCEPT ![c] = index]
    /\ UNCHANGED <<backdropItems, errorLog, timerVars>>

galleryGoToSlide(c, index) ==
    /\ carouselItems' = [carouselItems EXCEPT ![c] =
          [i \in DOMAIN @ |-> IF i = index THEN ShownItem ELSE HiddenItem]]
    /\ dots' = [dots EXCEPT ![c] =
          [i \in DOMAIN @ |-> IF i = index THEN ActiveDot ELSE InactiveDot(c)]]
    /\ currentIndex' = [currentIndex EXCEPT ![c] = index]
    /\ UNCHANGED <<backdropItems, errorLog, timerVars>>

\* the goToSlide of carousel c; nothing but the carousel's own state changes
goToSlide(c, index, tm) ==
    /\ IF c = Profile THEN profileGoToSlide(index, tm) ELSE galleryGoToSlide(c, index)
    /\ sinceSlide' = IF c = Profile THEN 0 ELSE sinceSlide
    /\ UNCHANGED <<pageVars, populated, status, images, navDisplay>>

\* an event on an element of a built carousel that has no handler for it
NoHandler ==
    UNCHANGED <<pageVars, populated, status, images, currentIndex, domVars,
                timerVars, errorLog, sinceSlide>>

\* ---- events ---------------------------------------------------------------------
\* dotElement.onclick / indicatorElement.onclick = () => goToSlide(index)
DotClick(c, i) ==
    /\ HasDotHandler(c, i)
    /\ goToSlide(c, i, TimerState)
    /\ lastOp' = [op |-> "dot", c |-> c, arg |-> i, from |-> currentIndex[c]]
    /\ UNCHANGED <<firedThisTick, hovering>>
    /\ UNCHANGED <<staleClosure, outsideCarousel>>

\* prevButton.onclick
PrevClick(c) ==
    /\ status[c] = "built"
    /\ IF HasNavHandlers(c)
       THEN goToSlide(c, PrevIndex(currentIndex[c], images[c]), TimerState)
       ELSE NoHandler
    /\ lastOp' = [op |-> "prev", c |-> c, arg |-> 0, from |-> currentIndex[c]]
    /\ UNCHANGED <<firedThisTick, hovering>>
    /\ UNCHANGED <<staleClosure, outsideCarousel>>

\* nextButton.onclick
NextClick(c) ==
    /\ status[c] = "built"
    /\ IF HasNavHandlers(c)
       THEN goToSlide(c, NextIndex(currentIndex[c], images[c]), TimerState)
       ELSE NoHandler
    /\ lastOp' = [op |-> "next", c |-> c, arg |-> 0, from |-> currentIndex[c]]
    /\ UNCHANGED <<firedThisTick, hovering>>
    /\ UNCHANGED <<staleClosure, outsideCarousel>>

\* carousel.addEventListener("mouseenter", ...)
MouseEnter ==
    /\ status[Profile] = "built"
    /\ IF HasHoverListeners
       THEN LET after == onMouseEnter(TimerState)
            IN  /\ autoRotateInterval' = after.handle
                /\ timers' = after.table
                /\ nextTimerId' = after.next
                /\ UNCHANGED <<pageVars, populated, status, images,
                               currentIndex, domVars, errorLog, sinceSlide>>
       ELSE NoHandler
    /\ hovering' = TRUE
    /\ lastOp' = [op |-> "mouseenter", c |-> Profile, arg |-> 0,
                 from |-> currentIndex[Profile]]
    /\ UNCHANGED firedThisTick
    /\ UNCHANGED <<staleClosure, outsideCarousel>>

\* carousel.addEventListener("mouseleave", ...)
MouseLeave ==
    /\ status[Profile] = "built"
    /\ IF HasHoverListeners
       THEN LET after == onMouseLeave(TimerState)
            IN  /\ WithinHandles(after)
                /\ autoRotateInterval' = after.handle
                /\ timers' = after.table
                /\ nextTimerId' = after.next
                /\ UNCHANGED <<pageVars, populated, status, images,
                               currentIndex, domVars, errorLog, sinceSlide>>
       ELSE NoHandler
    /\ hovering' = FALSE
    /\ lastOp' = [op |-> "mouseleave", c |-> Profile, arg |-> 0,
                 from |-> currentIndex[Profile]]
    /\ UNCHANGED firedThisTick
    /\ UNCHANGED <<staleClosure, outsideCarousel>>

\* the clock moves by one tick; an interval that is due runs its callback first
Tick ==
    /\ populated
    /\ \A h \in DOMAIN timers : timers[h] < TicksPerInterval
    /\ timers' = [h \in DOMAIN timers |-> timers[h] + 1]
    /\ firedThisTick' = 0
    /\ sinceSlide' = IF status[Profile] = "built" /\ sinceSlide < TicksPerInterval
                      THEN sinceSlide + 1 ELSE sinceSlide
    /\ lastOp' = [op |-> "tick", c |-> "page", arg |-> 0, from |-> 0]
    /\ UNCHANGED <<pageVars, populated, status, images, currentIndex, domVars,
                   autoRotateInterval, nextTimerId, errorLog, hovering>>
    /\ UNCHANGED <<staleClosure, outsideCarousel>>

\* the callback of setInterval in startAutoRotate, run for the due interval h
\* (which the browser has re-armed)
TimerFire(h) ==
    /\ h \in DOMAIN timers
    /\ timers[h] >= TicksPerInterval
    /\ goToSlide(Profile, NextIndex(currentIndex[Profile], images[Profile]),
                 [TimerState EXCEPT !.table[h] = 0])
    /\ firedThisTick' = firedThisTick + 1
    /\ lastOp' = [op |-> "timer", c |-> Profile, arg |-> h,
                 from |-> currentIndex[Profile]]
    /\ UNCHANGED hovering
    /\ UNCHANGED <<staleClosure, outsideCarousel>>

\* a caller invoking goToSlide(index) of a built carousel with any index
GoToSlideCall(c, index) ==
    /\ status[c] = "built"
    /\ goToSlide(c, index, TimerState)
    /\ lastOp' = [op |-> "call", c |-> c, arg |-> index, from |-> currentIndex[c]]
    /\ UNCHANGED <<firedThisTick, hovering>>
    /\ UNCHANGED <<staleClosure, outsideCarousel>>

\* window.addEventListener("beforeunload", cleanupAnimations): cleanupAnimations
\* disconnects animationObserver and clears the safety timeouts of the animated
\* elements; it touches nothing of the carousels
BeforeUnload ==
    /\ animationObserver' = IF animationObserver = "null"
                            THEN "null" ELSE "disconnected"
    /\ observed' = {}
    /\ safetyTimeouts' = {}
    /\ unloaded' = TRUE
    /\ lastOp' = [op |-> "beforeunload", c |-> "page", arg |-> 0, from |-> 0]
    /\ UNCHANGED <<isVisible, animationsSetUp, outsideAnimations>>

CallIndices(c) == (0 - IndexMargin)..(images[c] - 1 + IndexMargin)

Events ==
    \/ populateContent
    \/ \E c \in Carousels : \E i \in 0..(MaxItems - 1) : DotClick(c, i)
    \/ \E c \in Carousels : PrevClick(c)
    \/ \E c \in Carousels : NextClick(c)
    \/ MouseEnter
    \/ MouseLeave
    \/ Tick
    \/ \E h \in 1..MaxTimerId : TimerFire(h)

Next == Events

Spec == Init /\ [][Next]_vars

\* the same events on a page that lacks containers
SpecAnchors == InitAnchors /\ [][Next]_vars

\* the same events on a page with two carousels
PairConfigs ==
    { d \in [items : [Carousels -> 0..MaxItems], profileImage : BOOLEAN] :
        Cardinality({c \in Carousels : HasData(d, c)}) = 2 }

InitPair == \E d \in PairConfigs : InitWith(d, AllAnchors)

SpecPair == InitPair /\ [][Next]_vars

\* the events, and direct calls of goToSlide with any index
NextCall ==
    \/ Events
    \/ \E c \in Carousels : \E index \in CallIndices(c) : GoToSlideCall(c, index)

SpecCall == Init /\ [][NextCall]_vars

\* the events, and the page's beforeunload event
NextUnload ==
    \/ Events
    \/ BeforeUnload

SpecUnload == Init /\ [][NextUnload]_vars

\* ---- a second call of an initializer ------------------------------------------------
\* initializeProfileCarousel(images) or a gallery initializer called again on the
\* same containers with the same list. The containers are cleared and rebuilt and
\* the buttons' onclick replaced; the profile call makes a new closure (currentIndex
\* 0, autoRotateInterval null), while the interval and the hover listeners of the
\* closure before it stay registered
Reinitialize(c) ==
    /\ status[c] = "built"
    /\ IF c = Profile
       THEN /\ ~staleClosure.live
            /\ LET p == initializeProfileCarousel(
                            portfolioData, [TimerState EXCEPT !.handle = Null])
               IN  /\ WithinHandles(p.tm)
                   /\ carouselItems' = [carouselItems EXCEPT ![c] = p.items]
                   /\ backdropItems' = p.backdrops
                   /\ dots' = [dots EXCEPT ![c] = p.dots]
                   /\ navDisplay' = [navDisplay EXCEPT ![c] = p.nav]
                   /\ autoRotateInterval' = p.tm.handle
                   /\ timers' = p.tm.table
                   /\ nextTimerId' = p.tm.next
            /\ staleClosure' = [currentIndex |-> currentIndex[c],
                                autoRotateInterval |-> autoRotateInterval,
                                live |-> TRUE]
            /\ sinceSlide' = 0
       ELSE /\ LET g == initializeGalleryCarousel(c, portfolioData.items[c])
               IN  /\ carouselItems' = [carouselItems EXCEPT ![c] = g.items]
                   /\ dots' = [dots EXCEPT ![c] = g.dots]
                   /\ navDisplay' = [navDisplay EXCEPT ![c] = g.nav]
            /\ UNCHANGED <<backdropItems, timerVars, staleClosure, sinceSlide>>
    /\ currentIndex' = [currentIndex EXCEPT ![c] = 0]
    /\ lastOp' = [op |-> "reinit", c |-> c, arg |-> 0, from |-> currentIndex[c]]
    /\ UNCHANGED <<pageVars, populated, status, images, errorLog, firedThisTick,
                   hovering, outsideCarousel>>

\* goToSlide(index) of the closure left behind: it works on the elements now in
\* the containers and on its own currentIndex and autoRotateInterval
staleGoToSlide(index, tm) ==
    LET n == images[Profile]
        backdropIndex == BackdropIndex(index, n)
        after == resetAutoRotate(tm)
        found == index \in DOMAIN carouselItems[Profile]
    IN  /\ WithinHandles(after)
        /\ timers' = after.table
        /\ nextTimerId' = after.next
        /\ staleClosure' = [staleClosure EXCEPT !.currentIndex = index,
                                                !.autoRotateInterval = after.handle]
        /\ carouselItems' = [carouselItems EXCEPT ![Profile] =
              [i \in DOMAIN @ |-> IF found /\ i = index THEN ShownImage ELSE HiddenImage]]
        /\ backdropItems' = [i \in DOMAIN backdropItems |->
              IF found /\ i = backdropIndex THEN ShownBackdrop ELSE HiddenImage]
        /\ errorLog' = IF found THEN errorLog ELSE [errorLog EXCEPT ![Profile] = @ + 1]
        /\ dots' = [dots EXCEPT ![Profile] =
              [i \in DOMAIN @ |-> IF i = index THEN ActiveDot ELSE InactiveDot(Profile)]]
        /\ UNCHANGED <<autoRotateInterval, currentIndex>>

\* the interval callback of the closure left behind
StaleTimerFire(h) ==
    /\ staleClosure.live
    /\ h = staleClosure.autoRotateInterval
    /\ h \in DOMAIN timers
    /\ timers[h] >= TicksPerInterval
    /\ staleGoToSlide(NextIndex(staleClosure.currentIndex, images[Profile]),
                      [handle |-> h, table |-> [timers EXCEPT ![h] = 0],
                       next |-> nextTimerId])
    /\ firedThisTick' = firedThisTick + 1
    /\ sinceSlide' = 0
    /\ lastOp' = [op |-> "staletimer", c |-> Profile, arg |-> h,
                  from |-> staleClosure.currentIndex]
    /\ UNCHANGED <<pageVars, populated, status, images, navDisplay, hovering,
                   outsideCarousel>>

\* mouseenter on #profile-carousel when two closures have registered listeners:
\* the listener of the earlier closure runs, then the listener of the later one
MouseEnterTwice ==
    /\ staleClosure.live
    /\ status[Profile] = "built"
    /\ IF HasHoverListeners
       THEN LET old == onMouseEnter([handle |-> staleClosure.autoRotateInterval,
                                     table |-> timers, next |-> nextTimerId])
                new == onMouseEnter([handle |-> autoRotateInterval,
                                     table |-> old.table, next |-> old.next])
            IN  /\ staleClosure' = [staleClosure EXCEPT
                                        !.autoRotateInterval = old.handle]
                /\ autoRotateInterval' = new.handle
                /\ timers' = new.table
                /\ nextTimerId' = new.next
       ELSE UNCHANGED <<staleClosure, timerVars>>
    /\ hovering' = TRUE
    /\ lastOp' = [op |-> "mouseenter", c |-> Profile, arg |-> 0,
                  from |-> currentIndex[Profile]]
    /\ UNCHANGED <<pageVars, populated, status, images, currentIndex, domVars,
                   errorLog, firedThisTick, sinceSlide, outsideCarousel>>

\* mouseleave on #profile-carousel when two closures have registered listeners
MouseLeaveTwice ==
    /\ staleClosure.live
    /\ status[Profile] = "built"
    /\ IF HasHoverListeners
       THEN LET old == onMouseLeave([handle |-> staleClosure.autoRotateInterval,
                                     table |-> timers, next |-> nextTimerId])
                new == onMouseLeave([handle |-> autoRotateInterval,
                                     table |-> old.table, next |-> old.next])
            IN  /\ WithinHandles(new)
                /\ staleClosure' = [staleClosure EXCEPT
                                        !.autoRotateInterval = old.handle]
                /\ autoRotateInterval' = new.handle
                /\ timers' = new.table
                /\ nextTimerId' = new.next
       ELSE UNCHANGED <<staleClosure, timerVars>>
    /\ hovering' = FALSE
    /\ lastOp' = [op |-> "mouseleave", c |-> Profile, arg |-> 0,
                  from |-> currentIndex[Profile]]
    /\ UNCHANGED <<pageVars, populated, status, images, currentIndex, domVars,
                   errorLog, firedThisTick, sinceSlide, outsideCarousel>>

\* the events of a page whose initializers may be called a second time
NextReinit ==
    \/ populateContent
    \/ \E c \in Carousels : Reinitialize(c)
    \/ \E c \in Carousels : \E i \in 0..(MaxItems - 1) : DotClick(c, i)
    \/ \E c \in Carousels : PrevClick(c)
    \/ \E c \in Carousels : NextClick(c)
    \/ ~staleClosure.live /\ MouseEnter
    \/ ~staleClosure.live /\ MouseLeave
    \/ MouseEnterTwice
    \/ MouseLeaveTwice
    \/ Tick
    \/ \E h \in 1..MaxTimerId : h = autoRotateInterval /\ TimerFire(h)
    \/ \E h \in 1..MaxTimerId : StaleTimerFire(h)

SpecReinit == Init /\ [][NextReinit]_vars

\* ---- scroll animation events ---------------------------------------------------------
\* DOMContentLoaded: initializeScrollAnimations(). IntersectionObserver is supported
\* and the set-up completes ("observer"), or it is not supported ("unsupported"), or
\* an exception is thrown after `done` elements have been set up ("error"): the
\* last two end in fallbackAnimations()
initializeScrollAnimations(outcome, done) ==
    /\ ~animationsSetUp
    /\ ~unloaded
    /\ animationsSetUp' = TRUE
    /\ CASE outcome = "observer" ->
              /\ done = MaxAnimated
              /\ animationObserver' = "observing"
              /\ observed' = AnimatedElements
              /\ safetyTimeouts' = AnimatedElements
              /\ UNCHANGED isVisible
         [] outcome = "unsupported" ->
              /\ done = 0
              /\ isVisible' = fallbackAnimations
              /\ UNCHANGED <<animationObserver, observed, safetyTimeouts>>
         [] outcome = "error" ->
              /\ animationObserver' = IF done = 0 THEN "null" ELSE "observing"
              /\ observed' = 1..done
              /\ safetyTimeouts' = 1..done
              /\ isVisible' = fallbackAnimations
    /\ lastOp' = [op |-> "animations", c |-> outcome, arg |-> done, from |-> 0]
    /\ UNCHANGED <<unloaded, outsideAnimations>>

\* the callback of animationObserver for an entry that is intersecting
Intersect(e) ==
    /\ animationObserver = "observing"
    /\ e \in observed
    /\ isVisible' = [isVisible EXCEPT ![e] = TRUE]
    /\ observed' = observed \ {e}
    /\ lastOp' = [op |-> "intersect", c |-> "page", arg |-> e, from |-> 0]
    /\ UNCHANGED <<animationObserver, safetyTimeouts, animationsSetUp, unloaded,
                   outsideAnimations>>

\* the safety timeout of element e (2000 ms) runs
SafetyTimeoutFires(e) ==
    /\ e \in safetyTimeouts
    /\ safetyTimeouts' = safetyTimeouts \ {e}
    /\ isVisible' = safetyTimeoutCallback(isVisible, e)
    /\ lastOp' = [op |-> "safety", c |-> "page", arg |-> e, from |-> 0]
    /\ UNCHANGED <<animationObserver, observed, animationsSetUp, unloaded,
                   outsideAnimations>>

NextAnimations ==
    \/ \E outcome \in {"observer", "unsupported", "error"} :
          \E done \in 0..MaxAnimated : initializeScrollAnimations(outcome, done)
    \/ \E e \in AnimatedElements : Intersect(e)
    \/ \E e \in AnimatedElements : SafetyTimeoutFires(e)
    \/ BeforeUnload

\* the page's animations; DOMContentLoaded is delivered and a timeout that is
\* pending runs
SpecAnimations ==
    /\ InitAnimations
    /\ [][NextAnimations]_vars
    /\ WF_vars(\E outcome \in {"observer", "unsupported", "error"} :
                  \E done \in 0..MaxAnimated : initializeScrollAnimations(outcome, done))
    /\ \A e \in AnimatedElements : WF_vars(SafetyTimeoutFires(e))

\* ---- contact form events ----------------------------------------------------------
\* the input listener of a field: the user has changed its value; clearFieldError
FieldInput(f, v) ==
    /\ formFields' = [formFields EXCEPT ![f] = v]
    /\ fieldErrors' = [fieldErrors EXCEPT ![f] = FALSE]
    /\ lastOp' = [op |-> "input", c |-> "form", arg |-> 0, from |-> 0]
    /\ UNCHANGED <<outsideForm, honeypot, statusElement, submitDisabled,
                   inFlight, hideTimeouts>>

\* the blur listener of a field: validateField(fieldName, field.value)
FieldBlur(f) ==
    /\ fieldErrors' = [fieldErrors EXCEPT ![f] = ~validateField(f, formFields[f])]
    /\ lastOp' = [op |-> "blur", c |-> "form", arg |-> 0, from |-> 0]
    /\ UNCHANGED <<outsideForm, formFields, honeypot, statusElement,
                   submitDisabled, inFlight, hideTimeouts>>

\* a script fills the hidden input "website"
HoneypotFill ==
    /\ honeypot = HoneypotEmpty
    /\ honeypot' = HoneypotFilled
    /\ lastOp' = [op |-> "fill", c |-> "form", arg |-> 0, from |-> 0]
    /\ UNCHANGED <<outsideForm, formFields, fieldErrors, statusElement,
                   submitDisabled, inFlight, hideTimeouts>>

\* the submit event of #contact-form: handleFormSubmission up to its await, then
\* the listener of addHoneypotField; lastOp.arg counts its "Spam detected" log
Submit ==
    /\ ~submitDisabled
    /\ hideTimeouts + 2 <= MaxHideTimeouts
    /\ LET isValid == validateAllFields(formFields)
       IN  /\ fieldErrors' = [f \in Fields |-> ~validateField(f, formFields[f])]
           /\ IF ~isValid
              THEN /\ statusElement' = ShownMessage("correct the errors", "error")
                   /\ UNCHANGED <<submitDisabled, inFlight, hideTimeouts>>
              ELSE /\ submitDisabled' = setFormLoading(TRUE)
                   /\ statusElement' = ShownMessage("sending", "info")
                   /\ hideTimeouts' = hideTimeouts + 1
                   /\ inFlight' = TRUE
    /\ lastOp' = [op |-> "submit", c |-> "form",
                  arg |-> IF honeypot # HoneypotEmpty THEN 1 ELSE 0, from |-> 0]
    /\ UNCHANGED <<outsideForm, formFields, honeypot>>

\* the timeout of simulateFormSubmission runs and handleFormSubmission resumes:
\* resolved (success message, resetForm) or rejected (error message), and
\* setFormLoading(false) in either case
SubmissionSettles(resolved) ==
    /\ inFlight
    /\ IF resolved
       THEN /\ statusElement' = ShownMessage("sent", "success")
            /\ hideTimeouts' = hideTimeouts + 1
            /\ formFields' = [f \in Fields |-> EmptyValue]
            /\ honeypot' = HoneypotEmpty
            /\ fieldErrors' = [f \in Fields |-> FALSE]
       ELSE /\ statusElement' = ShownMessage("error sending", "error")
            /\ UNCHANGED <<hideTimeouts, formFields, honeypot, fieldErrors>>
    /\ submitDisabled' = setFormLoading(FALSE)
    /\ inFlight' = FALSE
    /\ lastOp' = [op |-> "settle", c |-> "form",
                  arg |-> IF resolved THEN 1 ELSE 0, from |-> 0]
    /\ UNCHANGED outsideForm

\* the oldest auto-hide timeout of showFormMessage runs; the one armed by the
\* submission in flight (5000 ms) cannot run before that submission settles
\* (1500 ms)
HideTimeoutFires ==
    /\ hideTimeouts > (IF inFlight THEN 1 ELSE 0)
    /\ hideTimeouts' = hideTimeouts - 1
    /\ statusElement' = [statusElement EXCEPT !.hidden = TRUE]
    /\ lastOp' = [op |-> "hide", c |-> "form", arg |-> 0, from |-> 0]
    /\ UNCHANGED <<outsideForm, formFields, fieldErrors, honeypot,
                   submitDisabled, inFlight>>

NextForm ==
    \/ \E f \in Fields : \E v \in FieldValues : FieldInput(f, v)
    \/ \E f \in Fields : FieldBlur(f)
    \/ HoneypotFill
    \/ Submit
    \/ \E resolved \in BOOLEAN : SubmissionSettles(resolved)
    \/ HideTimeoutFires

\* a page without carousel data, and its contact form
InitForm == InitWith(NoData, AllAnchors)

SpecForm == InitForm /\ [][NextForm]_vars

\* ---- what is visible --------------------------------------------------------------
IsActive(c, i) ==
    IF c = Profile
    THEN carouselItems[c][i].opacity = "1"
    ELSE carouselItems[c][i].display = "block"

ActiveItems(c) == {i \in DOMAIN carouselItems[c] : IsActive(c, i)}
ActiveBackdrops == {i \in DOMAIN backdropItems : backdropItems[i].opacity = "1"}
ActiveDots(c) == {i \in DOMAIN dots[c] : dots[c][i] = ActiveDot}
ActiveTimers == DOMAIN timers
ZeroItems(c) ==
    IF c = Profile THEN FinalImages(portfolioData) = 0 ELSE portfolioData.items[c] = 0

\* ---- C1 ----------------------------------------------------------------------------
\* C1: in every carousel variant, right after goToSlide(i) with i in 0..n-1 (an
\* indicator click on i) exactly one item is visually active, it is item i, and
\* exactly one indicator, the one at i, carries the active styling.
C1_GoToSlideOneActive ==
    lastOp.op = "dot" =>
        /\ lastOp.arg \in 0..(images[lastOp.c] - 1)
        /\ ActiveItems(lastOp.c) = {lastOp.arg}
        /\ ActiveDots(lastOp.c) = {lastOp.arg}

C1_Witness ==
    /\ lastOp.op = "dot"
    /\ lastOp.arg = MaxItems - 1
    /\ lastOp.from # lastOp.arg
    /\ ActiveItems(lastOp.c) = {MaxItems - 1}

\* ---- C2 ----------------------------------------------------------------------------
\* C2: in every carousel with n >= 1 items the next control moves currentIndex to
\* (currentIndex + 1) mod n and the previous control to (currentIndex - 1 + n) mod n.
C2_NextPrevWrap ==
    [][\A c \in Carousels :
          (status[c] = "built" /\ images[c] >= 1 /\ lastOp'.c = c) =>
              /\ lastOp'.op = "next" =>
                    currentIndex'[c] = (currentIndex[c] + 1) % images[c]
              /\ lastOp'.op = "prev" =>
                    currentIndex'[c] = (currentIndex[c] - 1 + images[c]) % images[c]
      ]_vars

\* previous from index 0 has wrapped to the last index of a longest list
C2_Witness ==
    /\ lastOp.op = "prev"
    /\ lastOp.from = 0
    /\ images[lastOp.c] = MaxItems
    /\ currentIndex[lastOp.c] = MaxItems - 1

\* ---- C3 ----------------------------------------------------------------------------
\* C3: in every reachable state of the profile carousel at most one interval timer
\* is active, and autoRotateInterval is non-null exactly when one is active, and it
\* is that timer's handle.
C3_OneTimer ==
    /\ Cardinality(ActiveTimers) <= 1
    /\ (autoRotateInterval # Null) <=> (ActiveTimers # {})
    /\ autoRotateInterval # Null => ActiveTimers = {autoRotateInterval}

\* a timer running after earlier ones were cleared by clicks and hovering
C3_Witness ==
    /\ lastOp.op = "mouseleave"
    /\ nextTimerId > 3
    /\ ActiveTimers = {autoRotateInterval}

\* ---- C4 ----------------------------------------------------------------------------
\* C4: startAutoRotate is idempotent: called while a timer is running (the mouseleave
\* listener after construction) it leaves the timer, the handle and the browser's
\* table as they were, and one elapsed interval runs the rotation callback once.
C4_StartIdempotent ==
    /\ [][(lastOp'.op = "mouseleave" /\ autoRotateInterval # Null) =>
              UNCHANGED <<autoRotateInterval, timers, nextTimerId>>]_vars
    /\ [][lastOp'.op = "timer" =>
              /\ firedThisTick' = 1
              /\ currentIndex'[Profile] =
                    (currentIndex[Profile] + 1) % images[Profile]]_vars

\* a second startAutoRotate (mouseleave) has run while the interval of construction
\* was running: that interval is still the only one, and is now due
C4_Witness ==
    /\ lastOp.op = "mouseleave"
    /\ autoRotateInterval = 1
    /\ nextTimerId = 2
    /\ timers[1] = TicksPerInterval

\* ---- C5 ----------------------------------------------------------------------------
\* C5: once the mouseenter listener (registered for two or more images) has stopped
\* the rotation no timer is left, and
\* while the rotation is stopped the passing of time (clock ticks, due intervals)
\* never changes currentIndex; mouseenter with no timer running changes nothing.
C5_StoppedStaysPut ==
    /\ []((lastOp.op = "mouseenter" /\ HasHoverListeners) =>
              (autoRotateInterval = Null /\ ActiveTimers = {}))
    /\ [][(autoRotateInterval = Null /\ lastOp'.op \in {"tick", "timer"}) =>
              currentIndex' = currentIndex]_vars
    /\ [][(autoRotateInterval = Null /\ lastOp'.op = "mouseenter") =>
              UNCHANGED <<currentIndex, domVars, timerVars>>]_vars

\* time passes over a carousel whose running timer mouseenter has cleared
C5_Witness ==
    /\ lastOp.op = "tick"
    /\ HasHoverListeners
    /\ autoRotateInterval = Null
    /\ nextTimerId > 1
    /\ ActiveTimers = {}

\* ---- C6 ----------------------------------------------------------------------------
\* C6: a carousel of any variant built with exactly one item shows no navigation
\* controls: previous button, next button and indicator dots are all hidden.
C6_SingleItemNoNav ==
    \A c \in Carousels :
        (status[c] = "built" /\ images[c] = 1) => navDisplay[c] = HiddenNav

\* ---- C7 ----------------------------------------------------------------------------
\* C7: for a profile carousel built with exactly one image no rotation timer runs in
\* any reachable state, a click on its single hidden dot included.
C7_SingleImageNoTimer ==
    (status[Profile] = "built" /\ images[Profile] = 1) =>
        (ActiveTimers = {} /\ autoRotateInterval = Null)

C9_PrevNextInverse ==
    [][\A c \in Carousels :
          (status[c] = "built" /\ images[c] >= 1 /\ lastOp.c = c /\ lastOp'.c = c
           /\ <<lastOp.op, lastOp'.op>> \in {<<"prev", "next">>, <<"next", "prev">>})
          => currentIndex'[c] = lastOp.from
      ]_vars

\* goToSlide(i), previous, next has come back to i = 1 in a longest list
C9_Witness ==
    /\ lastOp.op = "next"
    /\ images[lastOp.c] = MaxItems
    /\ lastOp.from = 0
    /\ currentIndex[lastOp.c] = 1

\* ---- C10 ---------------------------------------------------------------------------
\* C10: goToSlide(index) with index outside 0..n-1 is a no-op in every variant: it
\* leaves currentIndex, every item and backdrop, every indicator and the timer state
\* as they were.
C10_OutOfRangeNoOp ==
    [][(lastOp'.op = "call" /\ lastOp'.arg \notin 0..(images[lastOp'.c] - 1)) =>
          UNCHANGED <<currentIndex, carouselItems, backdropItems, dots, timerVars>>
      ]_vars

\* ---- C11 ---------------------------------------------------------------------------
\* the list initializeProfileCarousel / the gallery initializer of c works on
ItemsOf(c) == IF c = Profile THEN FinalImages(portfolioData) ELSE portfolioData.items[c]

\* C11: when a required container of a carousel that has data is missing, its
\* initializer logs one error and returns: it renders nothing, registers no handler
\* and starts no timer; every other carousel that has data is built as usual.
C11_MissingAnchorsIsolated ==
    populated =>
        \A c \in Carousels :
            /\ (ItemsOf(c) > 0 /\ ~anchors[c]) =>
                  /\ status[c] = "missing"
                  /\ errorLog[c] = 1
                  /\ carouselItems[c] = NoElements /\ dots[c] = NoElements
                  /\ navDisplay[c] = PageNav
                  /\ \A i \in 0..(MaxItems - 1) : ~HasDotHandler(c, i)
                  /\ ~HasNavHandlers(c)
                  /\ c = Profile =>
                        /\ backdropItems = NoElements
                        /\ ~HasHoverListeners
                        /\ ActiveTimers = {} /\ autoRotateInterval = Null
                        /\ nextTimerId = 1
            /\ (ItemsOf(c) > 0 /\ anchors[c]) =>
                  /\ status[c] = "built"
                  /\ images[c] = ItemsOf(c)
                  /\ DOMAIN carouselItems[c] = 0..(ItemsOf(c) - 1)
                  /\ DOMAIN dots[c] = 0..(ItemsOf(c) - 1)
                  /\ errorLog[c] = 0

\* the profile carousel lacks a container and a gallery carousel is built and in use
C11_Witness ==
    /\ status[Profile] = "missing"
    /\ errorLog[Profile] = 1
    /\ \E c \in Gallery : status[c] = "built" /\ currentIndex[c] = MaxItems - 1

\* ---- C13 ---------------------------------------------------------------------------
\* the step is a goToSlide of the profile carousel, run by a dot, by a navigation
\* button or by the interval callback
ProfileGoToSlideStep ==
    /\ lastOp'.c = Profile
    /\ \/ lastOp'.op = "dot"
       \/ lastOp'.op \in {"prev", "next"} /\ HasNavHandlers(Profile)
       \/ lastOp'.op = "timer"
    /\ <<lastOp, currentIndex, timerVars>>' # <<lastOp, currentIndex, timerVars>>

\* C13: a goToSlide of the profile carousel (two images or more) leaves the rotation
\* state as it was: stopped stays stopped, rotating stays rotating.
C13_GoToSlideKeepsRotationState ==
    [][(ProfileGoToSlideStep /\ images[Profile] >= 2) =>
          ((autoRotateInterval' = Null) <=> (autoRotateInterval = Null))]_vars

\* ---- C14 ---------------------------------------------------------------------------
\* C14: on a profile carousel of two images or more, right after mouseenter no
\* interval timer is left and right after mouseleave exactly one is, whatever the
\* state before the event was.
C14_HoverTimerCounts ==
    HasHoverListeners =>
        /\ lastOp.op = "mouseenter" =>
              ActiveTimers = {} /\ autoRotateInterval = Null
        /\ lastOp.op = "mouseleave" =>
              Cardinality(ActiveTimers) = 1 /\ ActiveTimers = {autoRotateInterval}

\* mouseleave has just run while an interval was already running: the pointer had
\* entered, a dot click restarted the rotation, and the pointer left
C14_Witness ==
    /\ HasHoverListeners
    /\ lastOp.op = "mouseleave"
    /\ Cardinality(ActiveTimers) = 1
    /\ nextTimerId = 3
    /\ currentIndex[Profile] = 1
    /\ sinceSlide = 1

\* ---- C15 ---------------------------------------------------------------------------
\* the step is a run of the interval callback
TimerStep == lastOp'.op = "timer" /\ firedThisTick' # firedThisTick

\* C15: while the pointer is over the profile carousel (after mouseenter, before
\* mouseleave) the interval callback never advances the slide, clicks included.
C15_NoTimerAdvanceWhileHovering ==
    [][(TimerStep /\ HasHoverListeners) => ~hovering]_vars

\* ---- C16 ---------------------------------------------------------------------------
\* C16: every goToSlide of the profile carousel, from a click or from the interval
\* callback, restarts the interval: it leaves one interval with nothing elapsed;
\* the callback runs for an interval that has run its full length, and never
\* earlier than one full interval after the most recent goToSlide.
C16_GoToSlideRestartsInterval ==
    [][/\ ProfileGoToSlideStep =>
            /\ ActiveTimers' = {autoRotateInterval'}
            /\ timers'[autoRotateInterval'] = 0
            /\ sinceSlide' = 0
       /\ TimerStep =>
            /\ timers[lastOp'.arg] = TicksPerInterval
            /\ sinceSlide = TicksPerInterval
       /\ autoRotateInterval' # Null =>
            timers'[autoRotateInterval'] <= sinceSlide']_vars

\* an interval restarted by a click on the last slide part-way through the first
\* interval is due, one full interval after the click
C16_Witness ==
    /\ images[Profile] = MaxItems
    /\ currentIndex[Profile] = MaxItems - 1
    /\ nextTimerId = 3
    /\ autoRotateInterval = 2
    /\ timers[autoRotateInterval] = TicksPerInterval
    /\ sinceSlide = TicksPerInterval
    /\ ~hovering

\* ---- C17 ---------------------------------------------------------------------------
\* C17: populateContent leaves a profile carousel of two images or more rotating,
\* with one interval that has just been armed; a gallery carousel's events leave the
\* interval table alone, no interval exists unless the profile carousel was built,
\* and a gallery's currentIndex changes only by a click on its own indicator,
\* previous or next button.
C17_ProfileRotatesGalleriesManual ==
    [][/\ (lastOp'.op = "populate" /\ status'[Profile] = "built"
              /\ images'[Profile] >= 2) =>
            /\ ActiveTimers' = {autoRotateInterval'}
            /\ timers'[autoRotateInterval'] = 0
       /\ lastOp'.c \in Gallery => UNCHANGED timerVars
       /\ status'[Profile] # "built" => (ActiveTimers' = {} /\ nextTimerId' = 1)
       /\ \A c \in Gallery :
            currentIndex'[c] # currentIndex[c] =>
                /\ lastOp'.c = c
                /\ lastOp'.op \in {"dot", "prev", "next"}]_vars

\* a profile carousel of MaxItems images, one tick after construction: its interval
\* is running and no slide change has happened yet
C17_Witness ==
    /\ lastOp.op = "tick"
    /\ images[Profile] = MaxItems
    /\ currentIndex[Profile] = 0
    /\ autoRotateInterval = 1
    /\ nextTimerId = 2
    /\ timers[autoRotateInterval] = 1
    /\ \A c \in Gallery : status[c] = "skipped"

\* ---- C18 ---------------------------------------------------------------------------
\* C18: in a profile carousel of n >= 2 images exactly one backdrop image is shown,
\* the one at (currentIndex + 1) mod n, which is never the image of the shown slide;
\* with one image at most one backdrop image is shown.
C18_OneBackdropAhead ==
    status[Profile] = "built" =>
        IF images[Profile] >= 2
        THEN /\ ActiveBackdrops = {(currentIndex[Profile] + 1) % images[Profile]}
             /\ ActiveBackdrops \cap ActiveItems(Profile) = {}
        ELSE Cardinality(ActiveBackdrops) <= 1

\* the interval callback has advanced to the last slide: the backdrop wraps to 0
C18_Witness ==
    /\ images[Profile] = MaxItems
    /\ lastOp.op = "timer"
    /\ currentIndex[Profile] = MaxItems - 1
    /\ ActiveBackdrops = {0}

\* ---- C19 ---------------------------------------------------------------------------
\* C19: in every state reached through clicks, hover events and interval callbacks,
\* a built carousel of n >= 1 items has currentIndex in 0..n-1, shows the item at
\* currentIndex and no other, and marks the indicator at currentIndex and no other.
C19_IndexIsTruth ==
    \A c \in Carousels :
        status[c] = "built" =>
            /\ images[c] >= 1
            /\ currentIndex[c] \in 0..(images[c] - 1)
            /\ ActiveItems(c) = {currentIndex[c]}
            /\ ActiveDots(c) = {currentIndex[c]}

\* a gallery carousel whose previous button has wrapped from the first item to the
\* last one
C19_Witness ==
    \E c \in Gallery :
        /\ images[c] = MaxItems
        /\ lastOp = [op |-> "prev", c |-> c, arg |-> 0, from |-> 0]
        /\ currentIndex[c] = MaxItems - 1
        /\ ActiveItems(c) = {MaxItems - 1}

\* ---- C20 ---------------------------------------------------------------------------
\* C20: when the page's unload handler has run, no rotation interval of the profile
\* carousel is left.
C20_UnloadClearsTimer ==
    lastOp.op = "beforeunload" => (ActiveTimers = {} /\ autoRotateInterval = Null)

\* ---- C12 ---------------------------------------------------------------------------
\* C12: a submit event that finds the hidden input "website" filled is rejected:
\* simulateFormSubmission is not started by it and no success message is shown.
C12_HoneypotRejects ==
    (lastOp.op = "submit" /\ honeypot # HoneypotEmpty) =>
        /\ ~inFlight
        /\ statusElement.type # "success"

\* ---- C21 ---------------------------------------------------------------------------
\* C21: after an initializer has been called a second time on the same containers
\* with the same n items, the carousel is as after one call: n slides and n
\* indicators, index 0 shown and marked, and for a profile carousel of two images
\* or more exactly one rotation interval.
C21_ReinitializeIdempotent ==
    \A c \in Carousels :
        (lastOp.op = "reinit" /\ lastOp.c = c) =>
            /\ DOMAIN carouselItems[c] = 0..(images[c] - 1)
            /\ DOMAIN dots[c] = 0..(images[c] - 1)
            /\ currentIndex[c] = 0
            /\ ActiveItems(c) = {0}
            /\ ActiveDots(c) = {0}
            /\ (c = Profile /\ images[c] >= 2) =>
                  /\ ActiveTimers = {autoRotateInterval}
                  /\ timers[autoRotateInterval] = 0

\* ---- C22 ---------------------------------------------------------------------------
\* C22: an event of one carousel (a click on its indicator, previous or next button,
\* a hover event, its interval callback) leaves currentIndex, the items' visibility
\* and the indicators' styling of every other carousel as they were, and leaves the
\* rotation interval alone unless the carousel is the profile carousel.
C22_CarouselsIndependent ==
    [][\A c \in Carousels :
          (lastOp'.c \in Carousels /\ lastOp'.c # c) =>
              /\ currentIndex'[c] = currentIndex[c]
              /\ carouselItems'[c] = carouselItems[c]
              /\ dots'[c] = dots[c]
              /\ navDisplay'[c] = navDisplay[c]
              /\ c = Profile => UNCHANGED <<backdropItems, timerVars>>]_vars

\* the profile carousel and a gallery carousel are both away from slide 0, and the
\* last event was a click on the gallery's indicator
C22_Witness ==
    \E c \in Gallery :
        /\ status[Profile] = "built" /\ status[c] = "built"
        /\ currentIndex[Profile] = 1
        /\ currentIndex[c] = MaxItems - 1
        /\ lastOp.op = "dot" /\ lastOp.c = c
        /\ ActiveTimers = {autoRotateInterval}

\* ---- C23 ---------------------------------------------------------------------------
\* C23: a goToSlide(i) run by a handler (so with a valid i) leaves the style of every
\* item other than the one shown before and item i as it was; in the profile
\* carousel the same holds of every backdrop image other than the one shown before
\* and the one shown after.
C23_GoToSlideTouchesTwoItems ==
    [][\A c \in Carousels :
          (lastOp'.c = c /\ lastOp'.op \in {"dot", "prev", "next", "timer"}) =>
              /\ \A i \in DOMAIN carouselItems[c] :
                    i \notin {currentIndex[c], currentIndex'[c]} =>
                        carouselItems'[c][i] = carouselItems[c][i]
              /\ c = Profile =>
                    \A i \in DOMAIN backdropItems :
                        (backdropItems[i].opacity # "1"
                            /\ backdropItems'[i].opacity # "1") =>
                                backdropItems'[i] = backdropItems[i]]_vars

\* a gallery carousel of MaxItems items has gone from item 1 to the last item by its
\* next button; item 0 is neither the item shown before nor the one shown now
C23_Witness ==
    \E c \in Gallery :
        /\ images[c] = MaxItems
        /\ lastOp = [op |-> "next", c |-> c, arg |-> 0, from |-> 1]
        /\ currentIndex[c] = 2
        /\ ~IsActive(c, 0)

\* ---- C24 ---------------------------------------------------------------------------
\* C24: an error message in #form-status is never hidden by a timeout: while the
\* status element holds an error message it is visible.
C24_ErrorStaysVisible ==
    statusElement.type = "error" => ~statusElement.hidden

\* ---- C25 ---------------------------------------------------------------------------
\* C25: the submit handler starts simulateFormSubmission only when each of name,
\* email, subject and message passes validateField; when a field fails it shows
\* the error message, does not enter the loading state, starts no submission and
\* leaves the field values as they were.
C25_SendOnlyValid ==
    [][lastOp'.op = "submit" =>
          /\ formFields' = formFields
          /\ IF \A f \in Fields : validateField(f, formFields[f])
             THEN inFlight' /\ submitDisabled'
             ELSE /\ ~inFlight' /\ ~submitDisabled'
                  /\ statusElement' = ShownMessage("correct the errors", "error")
                  /\ hideTimeouts' = hideTimeouts
                  /\ \E f \in Fields : fieldErrors'[f]]_vars

\* a submit with three valid fields and a message that is too short was refused
C25_Witness ==
    /\ lastOp.op = "submit"
    /\ formFields = [f \in Fields |-> IF f = "message" THEN BriefValue ELSE FineValue]
    /\ fieldErrors = [f \in Fields |-> f = "message"]
    /\ statusElement.type = "error"
    /\ ~inFlight

\* ---- C26 ---------------------------------------------------------------------------
\* C26: the submit button is disabled exactly while a submission is in flight; when
\* the submission settles the button is enabled again, resolved or rejected; the
\* form is reset when it resolved and the field values are kept when it was
\* rejected, and nothing but an input event or that reset changes a field value.
C26_DisabledWhileInFlight ==
    [][/\ submitDisabled' <=> inFlight'
       /\ (lastOp'.op = "submit" /\ inFlight') => (~inFlight /\ ~submitDisabled)
       /\ lastOp'.op = "settle" =>
            /\ inFlight /\ submitDisabled
            /\ ~inFlight' /\ ~submitDisabled'
            /\ IF lastOp'.arg = 1
               THEN formFields' = [f \in Fields |-> EmptyValue]
               ELSE formFields' = formFields
       /\ formFields' # formFields =>
            \/ lastOp'.op = "input"
            \/ lastOp'.op = "settle" /\ lastOp'.arg = 1]_vars

\* a submission of valid values has been rejected: the button is enabled again and
\* the values are still in the fields
C26_Witness ==
    /\ lastOp = [op |-> "settle", c |-> "form", arg |-> 0, from |-> 0]
    /\ formFields = [f \in Fields |-> FineValue]
    /\ ~submitDisabled
    /\ ~inFlight
    /\ statusElement.type = "error"

\* ---- C27 ---------------------------------------------------------------------------
\* C27: every animate-on-scroll element on the page when initializeScrollAnimations
\* runs gets the class is-visible in the end, unless the page's unload handler runs
\* first; and an element that has is-visible keeps it.
C27_EventuallyVisible ==
    /\ \A e \in AnimatedElements : <>(isVisible[e] \/ unloaded)
    /\ [][\A e \in AnimatedElements : isVisible[e] => isVisible'[e]]_vars

\* every element is visible and the page was not unloaded: the last one by its
\* safety timeout while the observer still waited for it, another by intersection
C27_Witness ==
    /\ lastOp.op = "safety"
    /\ \A e \in AnimatedElements : isVisible[e]
    /\ ~unloaded
    /\ animationObserver = "observing"
    /\ lastOp.arg \in observed
    /\ observed # AnimatedElements
    /\ safetyTimeouts = {}

\* ---- the mobile menu and the navigation links ----------------------------------------
InitMenu ==
    \E icons \in BOOLEAN : \E aria \in {"false", "absent"} :
        /\ InitPage(NoData, AllAnchors)
        /\ MenuLoaded(icons, aria)
        /\ ParallaxLoaded(FALSE)

\* a click on #mobile-menu-button
MenuButtonClick ==
    LET m == onMenuButtonClick(menuState, menuIcons) IN
    /\ ariaExpanded' = m.aria
    /\ menuHidden' = m.hidden
    /\ hamburgerHidden' = m.hamburger
    /\ closeHidden' = m.close
    /\ lastOp' = [op |-> "menuButton", c |-> "page", arg |-> 0, from |-> 0]
    /\ UNCHANGED <<menuIcons, activeLink, outsideMenu>>

\* a click on the navigation link of section l; lastOp.from is 1 when the click
\* found the menu open
NavLinkClick(l) ==
    LET m == onNavLinkClick(menuState, menuIcons) IN
    /\ ariaExpanded' = m.aria
    /\ menuHidden' = m.hidden
    /\ hamburgerHidden' = m.hamburger
    /\ closeHidden' = m.close
    /\ lastOp' = [op |-> "navLink", c |-> "page", arg |-> l,
                   from |-> IF menuHidden THEN 0 ELSE 1]
    /\ UNCHANGED <<menuIcons, activeLink, outsideMenu>>

\* the observer of the sections reports that section s entered the viewport
SectionIntersects(s) ==
    /\ activeLink' = s
    /\ lastOp' = [op |-> "section", c |-> "page", arg |-> s, from |-> 0]
    /\ UNCHANGED <<menuIcons, ariaExpanded, menuHidden, hamburgerHidden,
                   closeHidden, outsideMenu>>

NextMenu ==
    \/ MenuButtonClick
    \/ \E l \in Sections : NavLinkClick(l)
    \/ \E s \in Sections : SectionIntersects(s)

SpecMenu == InitMenu /\ [][NextMenu]_vars

\* ---- C28 ---------------------------------------------------------------------------
\* C28: from a closed menu, after any sequence of clicks on the menu button and on
\* navigation links, aria-expanded is "true" exactly when #mobile-menu is not
\* hidden, the hamburger icon is hidden exactly when the menu is open, and the
\* close icon is hidden exactly when the menu is closed.
C28_MenuConsistent ==
    /\ (ariaExpanded = "true") <=> ~menuHidden
    /\ menuIcons => (hamburgerHidden <=> ~menuHidden)
    /\ menuIcons => (closeHidden <=> menuHidden)

\* a navigation link has just closed a menu that the button had opened
C28_Witness ==
    /\ lastOp.op = "navLink"
    /\ lastOp.from = 1
    /\ menuIcons
    /\ menuHidden
    /\ ariaExpanded = "false"
    /\ ~hamburgerHidden
    /\ closeHidden
    /\ activeLink # 0

\* ---- parallax on scroll ---------------------------------------------------------------
\* the page has an element with data-parallax and is wider than 768 pixels, or
\* initializeParallaxEffects returned without registering requestTick
InitParallax ==
    \E listening \in BOOLEAN :
        /\ InitPage(NoData, AllAnchors)
        /\ MenuLoaded(TRUE, "false")
        /\ ParallaxLoaded(listening)

\* the window is scrolled to position y and the scroll event is delivered
Scroll(y) ==
    LET r == requestTick(ticking, pendingFrames) IN
    /\ y # scrollTop
    /\ scrollsSinceFrame < MaxScrollEvents
    /\ scrollTop' = y
    /\ scrollsSinceFrame' = scrollsSinceFrame + 1
    /\ ticking' = IF parallaxListening THEN r.ticking ELSE ticking
    /\ pendingFrames' = IF parallaxListening THEN r.pending ELSE pendingFrames
    /\ lastOp' = [op |-> "scroll", c |-> "page", arg |-> y, from |-> 0]
    /\ UNCHANGED <<parallaxListening, parallaxTransform, outsideParallax>>

\* the browser renders a frame: every queued updateParallax callback runs
AnimationFrame ==
    /\ scrollsSinceFrame > 0 \/ pendingFrames > 0
    /\ pendingFrames' = 0
    /\ ticking' = IF pendingFrames > 0 THEN FALSE ELSE ticking
    /\ parallaxTransform' = IF pendingFrames > 0 THEN updateParallax(scrollTop)
                            ELSE parallaxTransform
    /\ scrollsSinceFrame' = 0
    /\ lastOp' = [op |-> "frame", c |-> "page", arg |-> pendingFrames, from |-> 0]
    /\ UNCHANGED <<parallaxListening, scrollTop, outsideParallax>>

NextParallax ==
    \/ \E y \in ScrollPositions : Scroll(y)
    \/ AnimationFrame

SpecParallax == InitParallax /\ [][NextParallax]_vars

\* ---- C29 ---------------------------------------------------------------------------
\* C29: at most one updateParallax callback is queued at any time, and a scroll
\* event queues one only when none is queued and ticking is false, that is, after
\* the earlier one has run.
C29_OneFramePending ==
    /\ [](pendingFrames <= 1 /\ (ticking <=> pendingFrames = 1))
    /\ [][pendingFrames' > pendingFrames => (~ticking /\ pendingFrames = 0)]_vars

\* several scroll events since the last frame, one callback queued, and an
\* earlier callback has already moved the element
C29_Witness ==
    /\ lastOp.op = "scroll"
    /\ parallaxListening
    /\ scrollsSinceFrame >= 2
    /\ pendingFrames = 1
    /\ ticking
    /\ parallaxTransform # 0

====
